---- MODULE Spec2Model ----
(***************************************************************************)
(* Model of bemodel/src/bvhidea.py: a binary partition tree built by       *)
(* recursive midpoint splitting (Tree.build / split_leaf), its flattening  *)
(* into a list of node records with an explicit stack                      *)
(* (generate_node_list) and its reconstruction from that list              *)
(* (build_from_node_list).  The three functions are called in the order of *)
(* the __main__ driver and on the same input: Tree.build, then             *)
(* generate_node_list, then build_from_node_list on the list object that   *)
(* generate_node_list returned.  An exception of one call is recorded as   *)
(* its outcome.  Between the last two calls the caller may hand over a     *)
(* rearranged list, one with a repeated record or one with a record        *)
(* missing.                                                                *)
(*                                                                         *)
(* Python values are encoded as follows.  An optional value is a sequence  *)
(* of length 0 (None) or 1 (the value).  A record of the node list         *)
(* [id, type, side, parent_id, elems] is a TLA+ record with those fields.  *)
(* A dict is the sequence of its items in insertion order.                 *)
(***************************************************************************)
EXTENDS Integers, Sequences, FiniteSets, TLC

\* ---------------------------------------------------------------- bounds
MaxLen == 5
Values == {1, 2}
\* thresholds range over -MaxNegThreshold..MaxThreshold
MaxNegThreshold == 1
MaxThreshold == 2
RecursionLimit == 8
\* generate_node_list never ends when max_elems <= 0; the exploration of
\* those runs stops once the id counter passes every id a terminating run
\* can reach (a tree over n elements has at most 2n-1 nodes).
IdCap == 2 * (IF MaxLen > 11 THEN MaxLen ELSE 11) + 2

\* ------------------------------------------------------- Python encoding
None == << >>
Some(v) == << v >>

\* elems[:k] and elems[k:] for 0 <= k <= len(elems)
SliceTo(s, k) == SubSeq(s, 1, k)

\* variant: the right half starts one element late
SliceFrom_SkipsOne(s, k) == SubSeq(s, k + 2, Len(s))

SliceFrom(s, k) == SubSeq(s, k + 1, Len(s))

\* list.pop(): the last item and the list without it
PopItem(s) == s[Len(s)]
PopRest(s) == SubSeq(s, 1, Len(s) - 1)

\* dict operations on a sequence of [k, v] items in insertion order
DictHas(d, k) == \E i \in 1..Len(d) : d[i].k = k
DictGet(d, k) == d[CHOOSE i \in 1..Len(d) : d[i].k = k].v
DictSet(d, k, v) ==
    IF DictHas(d, k)
    THEN [i \in 1..Len(d) |-> IF d[i].k = k THEN [k |-> k, v |-> v] ELSE d[i]]
    ELSE Append(d, [k |-> k, v |-> v])
\* variant: the item is kept
DictDel_Keeps(d, k) == d

DictDel(d, k) == SelectSeq(d, LAMBDA it : it.k # k)

\* ------------------------------------------------------------ data model
\* Leaf(elems): a missing payload becomes the empty list
Leaf(e) == [kind |-> "leaf", elems |-> IF e = None THEN << >> ELSE e[1]]

\* a child slot of a Node that has not been set
NoChild == [kind |-> "none"]
Node(left, right) == [kind |-> "node", left |-> left, right |-> right]

\* ----------------------------------------------------- recursive builder
RecursionError == [kind |-> "RecursionError"]

\* variant: a slice one element over the threshold is kept as a leaf
SplitLeafCond_Loose(ll, max_elems) == ll > max_elems + 1

\* the split condition of split_leaf
SplitLeafCond(ll, max_elems) == ll > max_elems

\* variant: the midpoint is rounded up
RECURSIVE split_leaf_at_CeilMid(_, _, _)
split_leaf_at_CeilMid(elems, max_elems, depth) ==
    IF depth > RecursionLimit THEN RecursionError
    ELSE LET ll == Len(elems) IN
         IF SplitLeafCond(ll, max_elems)
         THEN LET left == split_leaf_at_CeilMid(SliceTo(elems, (ll + 1) \div 2), max_elems, depth + 1) IN
              IF left = RecursionError THEN RecursionError
              ELSE LET right == split_leaf_at_CeilMid(SliceFrom(elems, (ll + 1) \div 2), max_elems, depth + 1) IN
                   IF right = RecursionError THEN RecursionError
                   ELSE Node(left, right)
         ELSE Leaf(Some(elems))

\* split_leaf / Node.build; depth counts the nested split_leaf calls, and
\* the first call that passes the interpreter's limit raises.  The left
\* subtree is built before the right one.
RECURSIVE split_leaf_at(_, _, _)
split_leaf_at(elems, max_elems, depth) ==
    IF depth > RecursionLimit THEN RecursionError
    ELSE LET ll == Len(elems) IN
         IF SplitLeafCond(ll, max_elems)
         THEN LET left == split_leaf_at(SliceTo(elems, ll \div 2), max_elems, depth + 1) IN
              IF left = RecursionError THEN RecursionError
              ELSE LET right == split_leaf_at(SliceFrom(elems, ll \div 2), max_elems, depth + 1) IN
                   IF right = RecursionError THEN RecursionError
                   ELSE Node(left, right)
         ELSE Leaf(Some(elems))

split_leaf(leaf, max_elems) == split_leaf_at(leaf.elems, max_elems, 0)

\* Tree.build(elems, max_elems): the root of the tree, or the exception
TreeBuild(elems, max_elems) == split_leaf(Leaf(Some(elems)), max_elems)

\* ------------------------------------------------------------- flattener
Rec(id, type, side, parent_id, elems) ==
    [id |-> id, type |-> type, side |-> side, parent_id |-> parent_id, elems |-> elems]

\* variant: an input as long as the threshold is split too
GenSplitCond_Inclusive(ll, max_elems) == ll >= max_elems

\* the split condition of generate_node_list
GenSplitCond(ll, max_elems) == ll > max_elems

\* variant: the midpoint is rounded up
GenChildren_CeilMid(id, c_id, c_elems) ==
    LET cll == Len(c_elems) IN
    << Rec(id + 2, "node", "R", Some(c_id), Some(SliceFrom(c_elems, (cll + 1) \div 2))),
       Rec(id + 1, "node", "L", Some(c_id), Some(SliceTo(c_elems, (cll + 1) \div 2))) >>

\* variant: the right child takes the lower id
GenChildren_SwappedIds(id, c_id, c_elems) ==
    LET cll == Len(c_elems) IN
    << Rec(id + 1, "node", "R", Some(c_id), Some(SliceFrom(c_elems, cll \div 2))),
       Rec(id + 2, "node", "L", Some(c_id), Some(SliceTo(c_elems, cll \div 2))) >>

\* variant: both children are labelled as left children
GenChildren_BothLeft(id, c_id, c_elems) ==
    LET cll == Len(c_elems) IN
    << Rec(id + 2, "node", "L", Some(c_id), Some(SliceFrom(c_elems, cll \div 2))),
       Rec(id + 1, "node", "L", Some(c_id), Some(SliceTo(c_elems, cll \div 2))) >>

\* variant: the children are linked to the id counter, not to the entry split
GenChildren_WrongParent(id, c_id, c_elems) ==
    LET cll == Len(c_elems) IN
    << Rec(id + 2, "node", "R", Some(id), Some(SliceFrom(c_elems, cll \div 2))),
       Rec(id + 1, "node", "L", Some(id), Some(SliceTo(c_elems, cll \div 2))) >>

\* variant: the left child is pushed first, the right child ends on top
GenChildren_RightOnTop(id, c_id, c_elems) ==
    LET cll == Len(c_elems) IN
    << Rec(id + 1, "node", "L", Some(c_id), Some(SliceTo(c_elems, cll \div 2))),
       Rec(id + 2, "node", "R", Some(c_id), Some(SliceFrom(c_elems, cll \div 2))) >>

\* the two entries pushed on the pending stack when the entry c_id holding
\* c_elems is split: right child first, left child on top
GenChildren(id, c_id, c_elems) ==
    LET cll == Len(c_elems) IN
    << Rec(id + 2, "node", "R", Some(c_id), Some(SliceFrom(c_elems, cll \div 2))),
       Rec(id + 1, "node", "L", Some(c_id), Some(SliceTo(c_elems, cll \div 2))) >>

\* the record appended to node_list for a popped entry
GenNodeRecord(c) == Rec(c.id, "node", c.side, c.parent_id, None)
GenLeafRecord(c) == Rec(c.id, "leaf", c.side, c.parent_id, c.elems)

\* ----------------------------------------------------------------- state
VARIABLES
    pc,          \* position in the driver
    elems,       \* the input element list
    max_elems,   \* the splitting threshold
    tree,        \* root of Tree.build(elems, max_elems), or its exception
    g_pending,   \* generate_node_list: stack of entries still to process
    id,          \* generate_node_list: last id handed out
    node_list,   \* the record list: built by generate_node_list, then
                 \* consumed in place by build_from_node_list
    tamper,      \* what the caller did to the list before rebuilding
    r_pending,   \* build_from_node_list: dict pending
    completed,   \* build_from_node_list: dict completed
    outcome,     \* build_from_node_list: "running", "returned" or exception
    result       \* build_from_node_list: the value returned

vars == << pc, elems, max_elems, tree, g_pending, id, node_list, tamper,
           r_pending, completed, outcome, result >>

RECURSIVE SeqsUpTo(_)
SeqsUpTo(n) ==
    IF n = 0 THEN { << >> }
    ELSE SeqsUpTo(n - 1) \cup
         { Append(s, v) : s \in { t \in SeqsUpTo(n - 1) : Len(t) = n - 1 }, v \in Values }

\* the element list of the demonstration driver
DriverElems == << 1, 2, 3, 4, 5, 6, 7, 8, 9, 10, 11 >>

Inputs == SeqsUpTo(MaxLen) \cup { DriverElems }
Thresholds == (0 - MaxNegThreshold)..MaxThreshold

Init ==
    /\ pc = "start"
    /\ elems \in Inputs
    /\ max_elems \in Thresholds
    /\ tree = NoChild
    /\ g_pending = << >>
    /\ id = 0
    /\ node_list = << >>
    /\ tamper = "none"
    /\ r_pending = << >>
    /\ completed = << >>
    /\ outcome = "idle"
    /\ result = NoChild

\* tree = Tree.build(elems, max_elems)
BuildTree ==
    /\ pc = "start"
    /\ tree' = TreeBuild(elems, max_elems)
    /\ pc' = "built"
    /\ UNCHANGED << elems, max_elems, g_pending, id, node_list, tamper,
                    r_pending, completed, outcome, result >>

\* generate_node_list up to the first test of its loop condition
GenStart ==
    /\ pc = "built"
    /\ LET ll == Len(elems) IN
       IF GenSplitCond(ll, max_elems)
       THEN /\ node_list' = << Rec(0, "node", "L", None, None) >>
            /\ g_pending' =
                  << Rec(0 + 2, "node", "R", Some(0), Some(SliceFrom(elems, ll \div 2))),
                     Rec(0 + 1, "node", "L", Some(0), Some(SliceTo(elems, ll \div 2))) >>
            /\ id' = 2
       ELSE /\ node_list' = << Rec(0, "leaf", "L", None, Some(elems)) >>
            /\ g_pending' = << >>
            /\ id' = 0
    /\ pc' = "gen_loop"
    /\ UNCHANGED << elems, max_elems, tree, tamper, r_pending, completed,
                    outcome, result >>

\* one iteration of the loop over the pending stack
GenStep ==
    /\ pc = "gen_loop"
    /\ Len(g_pending) > 0
    /\ id < IdCap
    /\ LET c == PopItem(g_pending)
           rest == PopRest(g_pending)
           cll == Len(c.elems[1])
       IN IF GenSplitCond(cll, max_elems)
          THEN /\ node_list' = Append(node_list, GenNodeRecord(c))
               /\ g_pending' = rest \o GenChildren(id, c.id, c.elems[1])
               /\ id' = id + 2
          ELSE /\ node_list' = Append(node_list, GenLeafRecord(c))
               /\ g_pending' = rest
               /\ id' = id
    /\ UNCHANGED << pc, elems, max_elems, tree, tamper, r_pending, completed,
                    outcome, result >>

\* the loop condition fails (or the loop was never entered): return node_list
GenReturn ==
    /\ pc = "gen_loop"
    /\ Len(g_pending) = 0
    /\ pc' = "generated"
    /\ UNCHANGED << elems, max_elems, tree, g_pending, id, node_list, tamper,
                    r_pending, completed, outcome, result >>

\* ------------------------------------------------------ caller of rebuild
\* the list with the records at positions i and j exchanged
SwapRecords(l, i, j) ==
    [n \in 1..Len(l) |-> IF n = i THEN l[j] ELSE IF n = j THEN l[i] ELSE l[n]]

\* the list with a copy of its record i inserted before position j
InsertCopy(l, i, j) == SubSeq(l, 1, j - 1) \o << l[i] >> \o SubSeq(l, j, Len(l))

\* the caller passes the records in another order
Permute ==
    /\ pc = "generated"
    /\ tamper = "none"
    /\ \E i, j \in 1..Len(node_list) :
          /\ i < j
          /\ node_list' = SwapRecords(node_list, i, j)
    /\ tamper' = "permuted"
    /\ UNCHANGED << pc, elems, max_elems, tree, g_pending, id, r_pending,
                    completed, outcome, result >>

\* the caller passes a list in which one record occurs twice
Duplicate ==
    /\ pc = "generated"
    /\ tamper = "none"
    /\ \E i \in 1..Len(node_list), j \in 1..(Len(node_list) + 1) :
          node_list' = InsertCopy(node_list, i, j)
    /\ tamper' = "duplicated"
    /\ UNCHANGED << pc, elems, max_elems, tree, g_pending, id, r_pending,
                    completed, outcome, result >>

\* the list without its record i
DropRecord(l, i) == SubSeq(l, 1, i - 1) \o SubSeq(l, i + 1, Len(l))

\* the caller passes a list from which one record other than the root
\* record is missing
Remove ==
    /\ pc = "generated"
    /\ tamper = "none"
    /\ \E i \in 2..Len(node_list) :
          node_list' = DropRecord(node_list, i)
    /\ tamper' = "removed"
    /\ UNCHANGED << pc, elems, max_elems, tree, g_pending, id, r_pending,
                    completed, outcome, result >>

\* -------------------------------------------------------------- rebuilder
\* pending.get(parent_id, Node(None, None))
RebuildParent(pending, parent_id) ==
    IF DictHas(pending, parent_id) THEN DictGet(pending, parent_id)
    ELSE Node(NoChild, NoChild)

\* a record of type node is attached as completed[id]
RebuildNeedsCompleted(rec) == rec.type # "leaf"

\* variant: the sides are exchanged
RebuildAttach_Swapped(parent_node, side, child) ==
    IF side = "L" THEN [parent_node EXCEPT !.right = child]
    ELSE [parent_node EXCEPT !.left = child]

\* parent_node after the assignment to .left or .right
RebuildAttach(parent_node, side, child) ==
    IF side = "L" THEN [parent_node EXCEPT !.left = child]
    ELSE [parent_node EXCEPT !.right = child]

\* variant: one child is enough
RebuildIsComplete_Either(parent_node) ==
    parent_node.left # NoChild \/ parent_node.right # NoChild

\* parent_node.left is not None and parent_node.right is not None
RebuildIsComplete(parent_node) ==
    parent_node.left # NoChild /\ parent_node.right # NoChild

\* build_from_node_list is entered: two empty dicts
RebuildStart ==
    /\ pc = "generated"
    /\ pc' = "rebuild"
    /\ r_pending' = << >>
    /\ completed' = << >>
    /\ outcome' = "running"
    /\ UNCHANGED << elems, max_elems, tree, g_pending, id, node_list, tamper,
                    result >>

\* one iteration of the loop: pop the last record and attach it to its parent
RebuildStep ==
    /\ pc = "rebuild"
    /\ Len(node_list) > 1
    /\ LET rec == PopItem(node_list)
           parent_node == RebuildParent(r_pending, rec.parent_id)
       IN /\ node_list' = PopRest(node_list)
          /\ IF RebuildNeedsCompleted(rec) /\ ~DictHas(completed, Some(rec.id))
             THEN \* completed[id] raises
                  /\ outcome' = "KeyError"
                  /\ pc' = "done"
                  /\ UNCHANGED << r_pending, completed >>
             ELSE LET child == IF RebuildNeedsCompleted(rec)
                               THEN DictGet(completed, Some(rec.id))
                               ELSE Leaf(rec.elems)
                      comp1 == IF RebuildNeedsCompleted(rec)
                               THEN DictDel(completed, Some(rec.id))
                               ELSE completed
                      node1 == RebuildAttach(parent_node, rec.side, child)
                  IN IF RebuildIsComplete(node1)
                     THEN /\ completed' = DictSet(comp1, rec.parent_id, node1)
                          /\ IF DictHas(r_pending, rec.parent_id)
                             THEN /\ r_pending' = DictDel(r_pending, rec.parent_id)
                                  /\ UNCHANGED << pc, outcome >>
                             ELSE \* del pending[parent_id] raises
                                  /\ outcome' = "KeyError"
                                  /\ pc' = "done"
                                  /\ UNCHANGED r_pending
                     ELSE /\ r_pending' = DictSet(r_pending, rec.parent_id, node1)
                          /\ completed' = comp1
                          /\ UNCHANGED << pc, outcome >>
    /\ UNCHANGED << elems, max_elems, tree, g_pending, id, tamper, result >>

\* the loop ends: return list(completed.values())[0]
RebuildReturn ==
    /\ pc = "rebuild"
    /\ Len(node_list) <= 1
    /\ pc' = "done"
    /\ IF Len(completed) = 0
       THEN /\ outcome' = "IndexError"
            /\ UNCHANGED result
       ELSE /\ outcome' = "returned"
            /\ result' = completed[1].v
    /\ UNCHANGED << elems, max_elems, tree, g_pending, id, node_list, tamper,
                    r_pending, completed >>

Next ==
    \/ BuildTree
    \/ GenStart
    \/ GenStep
    \/ GenReturn
    \/ Permute
    \/ Duplicate
    \/ Remove
    \/ RebuildStart
    \/ RebuildStep
    \/ RebuildReturn

Spec == Init /\ [][Next]_vars

\* the code is sequential and runs each call to its end: a step of the
\* program that can be taken is taken
Fairness ==
    /\ WF_vars(BuildTree)
    /\ WF_vars(GenStart)
    /\ WF_vars(GenStep)
    /\ WF_vars(GenReturn)
    /\ WF_vars(RebuildStart)
    /\ WF_vars(RebuildStep)
    /\ WF_vars(RebuildReturn)
FairSpec == Init /\ [][Next]_vars /\ Fairness

\* ---------------------------------------------------------------- claims
Range(l) == { l[i] : i \in 1..Len(l) }

\* the leaf contents of a tree, left to right
RECURSIVE LeafSeq(_)
LeafSeq(t) ==
    IF t.kind = "node" THEN LeafSeq(t.left) \o LeafSeq(t.right)
    ELSE << t.elems >>

\* the tree a record list describes through id, parent_id and side alone
LinkedChild(l, parent, side) ==
    CHOOSE c \in Range(l) : c.parent_id = Some(parent) /\ c.side = side
RECURSIVE LinkedSubtree(_, _)
LinkedSubtree(l, r) ==
    IF r.type = "leaf" THEN Leaf(r.elems)
    ELSE Node(LinkedSubtree(l, LinkedChild(l, r.id, "L")),
              LinkedSubtree(l, LinkedChild(l, r.id, "R")))
LinkedTree(l) == LinkedSubtree(l, CHOOSE r \in Range(l) : r.parent_id = None)

\* generate_node_list has returned and the list is as it returned it
Generated == pc = "generated" /\ tamper = "none"
\* build_from_node_list has ended on the list generate_node_list returned
RebuiltFromGenerated == pc = "done" /\ tamper = "none"

\* C1: for every input and every positive max_elems, rebuilding the
\* flattened list returns the tree of Tree.build (same shape, same leaves).
C1_RoundTripAll ==
    (RebuiltFromGenerated /\ max_elems >= 1)
        => (outcome = "returned" /\ result = tree)

\* C2: when len(elems) > max_elems >= 1, flattening and rebuilding ends
\* without error and returns a Node with the shape and the in-order leaf
\* contents of Tree.build.
C2_RoundTripSplit ==
    (RebuiltFromGenerated /\ Len(elems) > max_elems /\ max_elems >= 1)
        => /\ outcome = "returned"
           /\ result.kind = "node"
           /\ result = tree
           /\ LeafSeq(result) = LeafSeq(tree)

C2_Witness ==
    /\ RebuiltFromGenerated
    /\ elems = DriverElems /\ max_elems = 2
    /\ outcome = "returned"
    /\ Len(LeafSeq(result)) = 7

\* C3: for every input and every positive max_elems, the tree that the
\* id/parent_id/side linkage and the leaf payloads of the generated records
\* describe is the tree Tree.build produces.
C3_LinkageIsRecursiveTree ==
    (Generated /\ max_elems >= 1) => LinkedTree(node_list) = tree

C3_Witness ==
    /\ Generated
    /\ max_elems >= 1
    /\ Len(elems) = 5
    /\ Len(node_list) >= 5
    /\ tree.kind = "node" /\ tree.right.kind = "node"

\* C4: given the single record of a root leaf, build_from_node_list
\* assembles no Node and returns the leaf holding the record's payload.
C4_DegenerateRebuild ==
    (/\ RebuiltFromGenerated
     /\ Len(node_list) = 1
     /\ node_list[1].type = "leaf"
     /\ node_list[1].parent_id = None)
        => /\ r_pending = << >>
           /\ completed = << >>
           /\ outcome = "returned"
           /\ result = Leaf(node_list[1].elems)

\* C5: when len(elems) <= max_elems the pending stack of
\* generate_node_list stays empty throughout, and the list it builds is the
\* single record with id 0, kind leaf, no parent and the whole input.
C5_DegenerateFlatten ==
    (Len(elems) <= max_elems)
        => /\ g_pending = << >>
           /\ (pc = "gen_loop" \/ Generated)
                => /\ Len(node_list) = 1
                   /\ node_list[1].id = 0
                   /\ node_list[1].type = "leaf"
                   /\ node_list[1].parent_id = None
                   /\ node_list[1].elems = Some(elems)

C5_Witness ==
    /\ Generated
    /\ Len(elems) = max_elems
    /\ max_elems = 2
    /\ Len(node_list) = 1

\* C6: a list with two records of the same id never makes
\* build_from_node_list return a tree; it ends in an error.
C6_DuplicateIdRejected ==
    (pc = "done" /\ tamper = "duplicated") => outcome # "returned"

\* C7: with max_elems <= 0 neither Tree.build nor generate_node_list
\* returns a result, splits, or emits a record.
C7_FailFast ==
    (max_elems <= 0)
        => /\ tree.kind \notin {"leaf", "node"}
           /\ node_list = << >>
           /\ g_pending = << >>

\* C8: the first record has id 0; the ids handed out so far are pairwise
\* distinct and are exactly 0..id; the two children of a split node have
\* consecutive ids, the left one the lower; the returned list of n records
\* carries exactly the ids 0..n-1.
GenEntries == node_list \o g_pending
C8_SequentialIds ==
    (pc = "gen_loop" \/ Generated)
        => /\ node_list[1].id = 0
           /\ \A i, j \in 1..Len(GenEntries) :
                 GenEntries[i].id = GenEntries[j].id => i = j
           /\ { GenEntries[i].id : i \in 1..Len(GenEntries) } = 0..id
           /\ \A i, j \in 1..Len(GenEntries) :
                 (/\ GenEntries[i].parent_id # None
                  /\ GenEntries[i].parent_id = GenEntries[j].parent_id
                  /\ GenEntries[i].side = "L"
                  /\ GenEntries[j].side = "R")
                    => GenEntries[j].id = GenEntries[i].id + 1
           /\ Generated
                => { node_list[i].id : i \in 1..Len(node_list) } = 0..(Len(node_list) - 1)

C8_Witness ==
    /\ Generated
    /\ Len(node_list) >= 7
    /\ id = Len(node_list) - 1

\* C9: for a positive max_elems the returned list has exactly one record
\* without parent; every other record names as parent exactly one record,
\* of kind node; every node record is the parent of exactly two records,
\* one L and one R; no leaf record is a parent.
RefsTo(l, k) == { i \in 1..Len(l) : l[i].parent_id = Some(k) }
C9_Linkage ==
    (Generated /\ max_elems >= 1)
        => /\ Cardinality({ i \in 1..Len(node_list) : node_list[i].parent_id = None }) = 1
           /\ \A i \in 1..Len(node_list) :
                 node_list[i].parent_id # None
                    => /\ Cardinality({ j \in 1..Len(node_list) :
                                          Some(node_list[j].id) = node_list[i].parent_id }) = 1
                       /\ \A j \in 1..Len(node_list) :
                             Some(node_list[j].id) = node_list[i].parent_id
                                => node_list[j].type = "node"
           /\ \A j \in 1..Len(node_list) :
                 IF node_list[j].type = "node"
                 THEN /\ Cardinality(RefsTo(node_list, node_list[j].id)) = 2
                      /\ Cardinality({ i \in RefsTo(node_list, node_list[j].id) :
                                          node_list[i].side = "L" }) = 1
                      /\ Cardinality({ i \in RefsTo(node_list, node_list[j].id) :
                                          node_list[i].side = "R" }) = 1
                 ELSE RefsTo(node_list, node_list[j].id) = {}

C9_Witness ==
    /\ Generated
    /\ max_elems >= 1
    /\ Cardinality({ i \in 1..Len(node_list) : node_list[i].type = "node" }) >= 3

\* C10: for every reordering of a generated list, build_from_node_list
\* returns the tree it returns for the generated order, which for a list of
\* more than one record is the tree of Tree.build.
C10_OrderIndependent ==
    (pc = "done" /\ tamper = "permuted" /\ max_elems >= 1)
        => (outcome = "returned" /\ result = tree)

\* the leaves of a tree, and the elements of a tree from left to right
RECURSIVE Leaves(_)
Leaves(t) ==
    IF t.kind = "node" THEN Leaves(t.left) \cup Leaves(t.right) ELSE { t }
RECURSIVE TreeElems(_)
TreeElems(t) ==
    IF t.kind = "node" THEN TreeElems(t.left) \o TreeElems(t.right) ELSE t.elems

\* Tree.build has returned a tree
TreeBuilt == pc # "start" /\ tree.kind \in {"leaf", "node"}
\* generate_node_list is running or has just returned
Generating == pc = "gen_loop" \/ Generated

\* C11: for max_elems >= 1, every leaf of the Tree.build tree, every leaf
\* record of generate_node_list and every leaf of the rebuilt tree holds at
\* most max_elems elements; a leaf below a split holds at least one.
C11_LeafBound ==
    (max_elems >= 1)
        => /\ TreeBuilt
              => /\ \A lf \in Leaves(tree) : Len(lf.elems) <= max_elems
                 /\ tree.kind = "node" => \A lf \in Leaves(tree) : Len(lf.elems) >= 1
           /\ Generating
              => \A i \in 1..Len(node_list) :
                    node_list[i].type = "leaf"
                       => /\ Len(node_list[i].elems[1]) <= max_elems
                          /\ node_list[i].parent_id # None
                                => Len(node_list[i].elems[1]) >= 1
           /\ (RebuiltFromGenerated /\ outcome = "returned")
              => \A lf \in Leaves(result) : 1 <= Len(lf.elems) /\ Len(lf.elems) <= max_elems

C11_Witness ==
    /\ RebuiltFromGenerated
    /\ outcome = "returned"
    /\ max_elems = 2
    /\ \E lf \in Leaves(result) : Len(lf.elems) = 2
    /\ \E lf \in Leaves(tree) : Len(lf.elems) = 1

\* C12: for max_elems >= 1 the leaf contents of the Tree.build tree, read
\* from left to right, are the input sequence; so are those of the tree
\* the generated records describe.
C12_ElementConservation ==
    (max_elems >= 1)
        => /\ TreeBuilt => TreeElems(tree) = elems
           /\ Generated => TreeElems(LinkedTree(node_list)) = elems

C12_Witness ==
    /\ Generated
    /\ max_elems = 1
    /\ Len(elems) = 5
    /\ elems[1] # elems[2]
    /\ TreeElems(LinkedTree(node_list)) = elems

\* C13: build_from_node_list leaves the list it was given as it is: no
\* step of the call changes the list.
C13_ArgumentUnchanged ==
    [][pc = "rebuild" => node_list' = node_list]_vars

\* C14: a list in which one record of a sibling pair is missing never
\* makes build_from_node_list return a tree; it ends in an error.
C14_MissingSiblingRejected ==
    (pc = "done" /\ tamper = "removed") => outcome # "returned"

\* build_from_node_list is at a loop iteration boundary on a list that
\* generate_node_list returned for a positive threshold
RebuildingGenerated == pc = "rebuild" /\ tamper = "none" /\ max_elems >= 1

\* C15: on the generated list of an input with len(elems) > max_elems >= 1,
\* when the loop of build_from_node_list ends pending is empty and
\* completed holds one entry, under the root id 0, and that entry is the
\* value returned.
C15_LoopExit ==
    (tamper = "none" /\ Len(elems) > max_elems /\ max_elems >= 1)
        => /\ (pc = "rebuild" /\ Len(node_list) <= 1)
              => /\ r_pending = << >>
                 /\ Len(completed) = 1
                 /\ completed[1].k = Some(0)
           /\ pc = "done"
              => /\ outcome = "returned"
                 /\ Len(completed) = 1
                 /\ result = completed[1].v

C15_Witness ==
    /\ RebuildingGenerated
    /\ Len(elems) = 5
    /\ Len(node_list) = 1
    /\ r_pending = << >>
    /\ Len(completed) = 1

\* C16: at every loop iteration boundary on a generated list, every entry
\* of pending is a Node with exactly one child set, every entry of
\* completed is a Node with both children set and no key is in both dicts;
\* an iteration puts a new entry into completed exactly when it consumes
\* the second child of that key, and then the key leaves pending.
OneChildSet(n) == n.kind = "node" /\ ((n.left = NoChild) # (n.right = NoChild))
BothChildrenSet(n) == n.kind = "node" /\ n.left # NoChild /\ n.right # NoChild
C16_Shape ==
    RebuildingGenerated
        => /\ \A i \in 1..Len(r_pending) : OneChildSet(r_pending[i].v)
           /\ \A i \in 1..Len(completed) : BothChildrenSet(completed[i].v)
           /\ \A i \in 1..Len(r_pending) : ~DictHas(completed, r_pending[i].k)
C16_Move ==
    (RebuildingGenerated /\ Len(node_list) > 1)
        => LET k == PopItem(node_list).parent_id IN
           /\ \A j \in 1..Len(completed') :
                 ~DictHas(completed, completed'[j].k)
                    => (completed'[j].k = k /\ DictHas(r_pending, k))
           /\ DictHas(r_pending, k)
                 => (DictHas(completed', k) /\ ~DictHas(r_pending', k))
           /\ ~DictHas(r_pending, k)
                 => (DictHas(r_pending', k) /\ ~DictHas(completed', k))
C16_PendingToCompleted == []C16_Shape /\ [][C16_Move]_vars

C16_Witness ==
    /\ RebuildingGenerated
    /\ Len(r_pending) >= 2
    /\ Len(completed) >= 1

\* C17: for max_elems >= 1 every slice pushed on the pending stack of
\* generate_node_list is non-empty and strictly shorter than the slice it
\* was split from, and generate_node_list, once called, returns.
C17_Shrinks ==
    (max_elems >= 1 /\ Len(g_pending') > Len(g_pending))
        => LET parent == IF pc = "built" THEN elems ELSE PopItem(g_pending).elems[1]
               n == Len(g_pending')
           IN \A i \in {n - 1, n} :
                 /\ Len(g_pending'[i].elems[1]) >= 1
                 /\ Len(g_pending'[i].elems[1]) < Len(parent)
C17_Terminates ==
    /\ [][C17_Shrinks]_vars
    /\ (max_elems >= 1 /\ pc = "built") ~> (pc = "generated" /\ g_pending = << >>)

C17_Witness ==
    /\ Generated
    /\ elems = DriverElems
    /\ max_elems = 1
    /\ Len(node_list) = 21
    /\ g_pending = << >>

\* a tree and all the trees below it
RECURSIVE Subtrees(_)
Subtrees(t) ==
    IF t.kind = "node" THEN { t } \cup Subtrees(t.left) \cup Subtrees(t.right)
    ELSE { t }

\* C18: in the tree of Tree.build a slice of n elements is a Node only if
\* n > max_elems, and then its left subtree holds the first n \div 2
\* elements and its right subtree the other n - n \div 2; a slice is a Leaf
\* only if n <= max_elems; the slices are the input in its order.
C18_SplitRule ==
    TreeBuilt
        => /\ TreeElems(tree) = elems
           /\ \A t \in Subtrees(tree) :
                 LET n == Len(TreeElems(t)) IN
                 IF t.kind = "node"
                 THEN /\ n > max_elems
                      /\ Len(TreeElems(t.left)) = n \div 2
                      /\ Len(TreeElems(t.right)) = n - (n \div 2)
                      /\ Len(TreeElems(t.left)) <= Len(TreeElems(t.right))
                      /\ Len(TreeElems(t.right)) - Len(TreeElems(t.left)) <= 1
                 ELSE n <= max_elems

C18_Witness ==
    /\ TreeBuilt
    /\ Len(elems) = 5
    /\ max_elems = 1
    /\ tree.kind = "node"
    /\ Len(TreeElems(tree.left)) = 2
    /\ tree.right.kind = "node"
    /\ Len(TreeElems(tree.right.left)) = 1

\* C19: in the returned list the root record is first and every other
\* record comes after the record of its parent; so when
\* build_from_node_list pops the list from its end, a record of kind node
\* is consumed when completed already holds its id, no lookup fails, and
\* the record left at the end is the root record.
C19_ParentsFirst ==
    /\ Generated
          => /\ node_list[1].parent_id = None
             /\ \A i \in 2..Len(node_list) :
                   \E j \in 1..(i - 1) : Some(node_list[j].id) = node_list[i].parent_id
    /\ (pc = "rebuild" /\ tamper = "none" /\ Len(node_list) > 1
           /\ RebuildNeedsCompleted(PopItem(node_list)))
          => DictHas(completed, Some(PopItem(node_list).id))
    /\ RebuiltFromGenerated
          => /\ outcome # "KeyError"
             /\ Len(node_list) = 1
             /\ node_list[1].parent_id = None

C19_Witness ==
    /\ pc = "rebuild"
    /\ tamper = "none"
    /\ Len(node_list) > 2
    /\ PopItem(node_list).type = "node"
    /\ DictHas(completed, Some(PopItem(node_list).id))
    /\ Len(r_pending) >= 1

\* the records of a list in the left-first depth-first order and in the
\* breadth-first order of the tree they describe
LinkedChildren(l, r) ==
    IF r.type = "node"
    THEN << LinkedChild(l, r.id, "L"), LinkedChild(l, r.id, "R") >>
    ELSE << >>
RECURSIVE PreOrder(_, _)
PreOrder(l, r) ==
    IF r.type = "node"
    THEN << r >> \o PreOrder(l, LinkedChild(l, r.id, "L"))
                 \o PreOrder(l, LinkedChild(l, r.id, "R"))
    ELSE << r >>
RECURSIVE NextLevel(_, _)
NextLevel(l, level) ==
    IF level = << >> THEN << >>
    ELSE LinkedChildren(l, Head(level)) \o NextLevel(l, Tail(level))
RECURSIVE LevelOrder(_, _)
LevelOrder(l, level) ==
    IF level = << >> THEN << >>
    ELSE level \o LevelOrder(l, NextLevel(l, level))
LinkedRoot(l) == CHOOSE r \in Range(l) : r.parent_id = None
SplitCount == Cardinality({ i \in 1..Len(node_list) : node_list[i].type = "node" })

\* C20 as stated: when the input is split more than once, the order of the
\* returned records is neither the breadth-first order nor the left-first
\* depth-first order of the tree.
C20_NeitherOrder ==
    (Generated /\ SplitCount >= 2)
        => /\ node_list # LevelOrder(node_list, << LinkedRoot(node_list) >>)
           /\ node_list # PreOrder(node_list, LinkedRoot(node_list))

\* C20 amended: each iteration emits the entry on top of the pending stack
\* (last in, first out); the returned records are in the left-first
\* depth-first (pre-order) order of the tree, which differs from the
\* breadth-first order whenever the left child of the root is split.
C20_EmitsTop ==
    (pc = "gen_loop" /\ Len(node_list') = Len(node_list) + 1)
        => /\ node_list'[Len(node_list')].id = g_pending[Len(g_pending)].id
           /\ SubSeq(g_pending', 1, Len(g_pending) - 1) = PopRest(g_pending)
C20_Order ==
    Generated
        => /\ node_list = PreOrder(node_list, LinkedRoot(node_list))
           /\ (LinkedRoot(node_list).type = "node"
                 /\ LinkedChild(node_list, LinkedRoot(node_list).id, "L").type = "node")
                 => node_list # LevelOrder(node_list, << LinkedRoot(node_list) >>)
C20_PreOrder == []C20_Order /\ [][C20_EmitsTop]_vars

C20_Witness ==
    /\ Generated
    /\ SplitCount >= 3
    /\ LinkedChild(node_list, LinkedRoot(node_list).id, "L").type = "node"
    /\ node_list = PreOrder(node_list, LinkedRoot(node_list))
    /\ node_list # LevelOrder(node_list, << LinkedRoot(node_list) >>)
====
